---- MODULE Spec2Model ----
(***************************************************************************)
(* Verification model of gemini-watermark-remover-plus.                    *)
(*                                                                         *)
(*   src/src/core/watermarkEngine.js  position detector, alpha-map cache,  *)
(*                                    removal entry point, engine factory  *)
(*   src/src/app.js                   application: init, file handling,    *)
(*                                    queue, custom-position editor        *)
(*                                                                         *)
(* The specifications share the variables below:                           *)
(*   SpecDetect  the pure position detector applied to bounded dimensions  *)
(*   SpecEngine  one engine: overlapping removeWatermarkFromImage calls    *)
(*               and its alpha-map cache, at pixel level                   *)
(*   SpecAlpha   the engine on sizes around the capture choice             *)
(*   SpecApp     the application: init, user events, asynchronous tasks    *)
(*   SpecEdit    the custom-position editor on one selected image          *)
(*   SpecQueue   batch processing under repeated selections and resets     *)
(*   SpecBatch   one batch, with every asynchronous step settling          *)
(***************************************************************************)
EXTENDS Integers, Sequences, FiniteSets, Bags, TLC

VARIABLES
    \* ---- SpecDetect: one detector query and what the calls returned
    dW, dH,          \* the dimensions passed to the detector
    dConfig,         \* result of detectWatermarkConfig(dW, dH), or NoResult
    dInfo,           \* result of getWatermarkInfo(dW, dH), or NoResult
    \* ---- SpecEngine: one WatermarkEngine and the calls made on it
    alphaMaps,       \* this.alphaMaps: cache key -> alpha map
    calcCount,       \* instrumentation: calculateAlphaMap runs per (width, height)
    served,          \* instrumentation: what every getAlphaMap call returned
    calls,           \* the removeWatermarkFromImage calls, by call slot
    \* ---- SpecApp: app.js
    initPc,          \* where init() is: start, i18n, create, ready, failed
    bg48, bg96,      \* the capture images of create(): unset, loading, loaded, error
    engine,          \* the global `engine`: NoEngine for null
    createCalls,     \* instrumentation: calls of WatermarkEngine.create
    listeners,       \* the event listeners registered so far
    imageQueue,      \* the global imageQueue: item ids
    items,           \* every queue item object ever built, by id
    processedCount,  \* the global processedCount
    cards,           \* ids of the items that have a card in imageList
    preview,         \* which preview is shown: none, single, multi
    displayed,       \* the item shown in originalImage, or NoItem
    processedImage,  \* the item and result shown in processedImage, or NoItem
    toggleShown,     \* toggleCustomBtn is displayed
    isCustomMode,    \* the global isCustomMode
    customPosition,  \* the global customPosition: NoPosition for null
    positionItem,    \* instrumentation: the item customPosition was set on
    dragState,       \* the global dragState: NoDrag for null
    box,             \* watermarkBox.style left/top/width/height, in 1/SubPx px
    overlayShown,    \* watermarkOverlay is displayed
    scale,           \* natural width / rendered width of originalImage
    processTimeout,  \* the pending timer of handleKeyDown, or NoTimer
    tasks,           \* the suspended async functions (a bag)
    runs,            \* the calls of processQueue
    engineLog,       \* instrumentation: the calls made on `engine`
    events,          \* instrumentation: user events so far
    dropped          \* instrumentation: an event found no listener

detectVars == <<dW, dH, dConfig, dInfo>>
engineVars == <<alphaMaps, calcCount, served, calls>>

initVars == <<initPc, bg48, bg96, engine, createCalls, listeners>>
queueVars == <<imageQueue, items, processedCount, cards, preview, displayed,
               processedImage, toggleShown>>
editVars == <<isCustomMode, customPosition, positionItem, dragState, box, overlayShown, scale,
              processTimeout>>
taskVars == <<tasks, runs>>
appVars == <<initVars, queueVars, editVars, taskVars, engineLog, events, dropped>>

vars == <<dW, dH, dConfig, dInfo, alphaMaps, calcCount, served, calls,
          initPc, bg48, bg96, engine, createCalls, listeners, imageQueue, items,
          processedCount, cards, preview, displayed, processedImage, toggleShown,
          isCustomMode, customPosition, positionItem, dragState, box, overlayShown,
          scale,
          processTimeout, tasks, runs, engineLog, events, dropped>>

\* "no value yet": a record, so that it compares with every result
NoResult == [none |-> TRUE]

Max(a, b) == IF a >= b THEN a ELSE b
Min(a, b) == IF a <= b THEN a ELSE b


(***************************************************************************)
(* Values the specifications give the variables they do not use.           *)
(***************************************************************************)
NoCall == [pc |-> "idle"]
EmptyMap == [k \in {} |-> NoResult]

EngineIdle ==
    /\ alphaMaps = EmptyMap
    /\ calcCount = EmptyMap
    /\ served = {}
    /\ calls = <<>>

DetectIdle ==
    /\ dW = 0
    /\ dH = 0
    /\ dConfig = NoResult
    /\ dInfo = NoResult

(***************************************************************************)
(* The application before init() has run (app.js lines 8-14, 523, and the  *)
(* page as loaded).                                                        *)
(***************************************************************************)
NoEngine == [none |-> TRUE]
NoItem == [none |-> TRUE]
NoTimer == [none |-> TRUE]
NoDrag == [none |-> TRUE]
NoPosition == [none |-> TRUE]

AppIdle ==
    /\ initPc = "start"
    /\ bg48 = "unset"
    /\ bg96 = "unset"
    /\ engine = NoEngine
    /\ createCalls = 0
    /\ listeners = {}
    /\ imageQueue = <<>>
    /\ items = <<>>
    /\ processedCount = 0
    /\ cards = {}
    /\ preview = "none"
    /\ displayed = NoItem
    /\ processedImage = NoItem
    /\ toggleShown = FALSE
    /\ isCustomMode = FALSE
    /\ customPosition = NoPosition
    /\ positionItem = NoItem
    /\ dragState = NoDrag
    /\ box = [left |-> 0, top |-> 0, width |-> 0, height |-> 0]
    /\ overlayShown = FALSE
    /\ scale = 1
    /\ processTimeout = NoTimer
    /\ tasks = EmptyBag
    /\ runs = <<>>
    /\ engineLog = {}
    /\ events = 0
    /\ dropped = FALSE

(***************************************************************************)
(* Position detector (watermarkEngine.js)                                  *)
(***************************************************************************)

\* the size both dimensions must exceed for the large watermark
TierThreshold == 1024

\* a plausible slip: the 96 tier with margins of half the logo size
Tier96_HalfMargin == [logoSize |-> 96, marginRight |-> 48, marginBottom |-> 48]

Tier96 == [logoSize |-> 96, marginRight |-> 64, marginBottom |-> 64]
Tier48 == [logoSize |-> 48, marginRight |-> 32, marginBottom |-> 32]

\* a plausible slip: || for &&
detectWatermarkConfig_Or(imageWidth, imageHeight) ==
    IF imageWidth > TierThreshold \/ imageHeight > TierThreshold
    THEN Tier96
    ELSE Tier48

detectWatermarkConfig(imageWidth, imageHeight) ==
    IF imageWidth > TierThreshold /\ imageHeight > TierThreshold
    THEN Tier96
    ELSE Tier48

\* a plausible slip: the position clamped into the image
calculateWatermarkPosition_Clamped(imageWidth, imageHeight, config) ==
    [x      |-> Max(0, imageWidth - config.marginRight - config.logoSize),
     y      |-> Max(0, imageHeight - config.marginBottom - config.logoSize),
     width  |-> config.logoSize,
     height |-> config.logoSize]

\* a plausible slip: the margin left out
calculateWatermarkPosition_NoMargin(imageWidth, imageHeight, config) ==
    [x      |-> imageWidth - config.logoSize,
     y      |-> imageHeight - config.logoSize,
     width  |-> config.logoSize,
     height |-> config.logoSize]

calculateWatermarkPosition(imageWidth, imageHeight, config) ==
    [x      |-> imageWidth - config.marginRight - config.logoSize,
     y      |-> imageHeight - config.marginBottom - config.logoSize,
     width  |-> config.logoSize,
     height |-> config.logoSize]

getWatermarkInfo(imageWidth, imageHeight) ==
    LET config   == detectWatermarkConfig(imageWidth, imageHeight)
        position == calculateWatermarkPosition(imageWidth, imageHeight, config)
    IN  [size |-> config.logoSize, position |-> position, config |-> config]

(***************************************************************************)
(* SpecDetect: the detector applied to bounded dimensions.  The dimensions *)
(* cover a window around every value where the detector's result changes   *)
(* shape (0: non-positive input; 80 = 32 + 48: the rectangle turns         *)
(* negative; 1024: the tier threshold) and the sizes the specification     *)
(* quotes (800 x 600, 2000 x 2000).                                        *)
(***************************************************************************)
Window == 2

Dims ==
    UNION {(c - Window)..(c + Window) : c \in {0, 80, TierThreshold}}
        \cup {600, 800, 2000}

DetectInit ==
    /\ dW \in Dims
    /\ dH \in Dims
    /\ dConfig = NoResult
    /\ dInfo = NoResult
    /\ EngineIdle
    /\ AppIdle

\* a caller evaluates detectWatermarkConfig(dW, dH)
CallDetectWatermarkConfig ==
    /\ dConfig = NoResult
    /\ dConfig' = detectWatermarkConfig(dW, dH)
    /\ UNCHANGED <<dW, dH, dInfo>>
    /\ UNCHANGED <<engineVars, appVars>>

\* a caller evaluates engine.getWatermarkInfo(dW, dH)
CallGetWatermarkInfo ==
    /\ dInfo = NoResult
    /\ dInfo' = getWatermarkInfo(dW, dH)
    /\ UNCHANGED <<dW, dH, dConfig>>
    /\ UNCHANGED <<engineVars, appVars>>

\* the next query: other dimensions, results forgotten
NewQuery ==
    /\ dConfig # NoResult \/ dInfo # NoResult
    /\ dW' \in Dims
    /\ dH' \in Dims
    /\ dConfig' = NoResult
    /\ dInfo' = NoResult
    /\ UNCHANGED <<engineVars, appVars>>

DetectNext ==
    \/ CallDetectWatermarkConfig
    \/ CallGetWatermarkInfo
    \/ NewQuery

SpecDetect == DetectInit /\ [][DetectNext]_vars

(***************************************************************************)
(* Claims about the position detector, checked under SpecDetect.           *)
(***************************************************************************)

\* C1: for positive dimensions the detector selects the tier {96, 64, 64}
\* exactly when both dimensions exceed 1024 and the tier {48, 32, 32}
\* otherwise, through detectWatermarkConfig and through getWatermarkInfo;
\* 1024 x 1025 selects the 48 tier.
C1_TierSelection ==
    LET big == dW > 1024 /\ dH > 1024
        t96 == [logoSize |-> 96, marginRight |-> 64, marginBottom |-> 64]
        t48 == [logoSize |-> 48, marginRight |-> 32, marginBottom |-> 32]
        expected == IF big THEN t96 ELSE t48
    IN  (dW > 0 /\ dH > 0) =>
          /\ dConfig # NoResult => dConfig = expected
          /\ dInfo # NoResult =>
               /\ dInfo.config = expected
               /\ dInfo.size = expected.logoSize
          /\ (dW = 1024 /\ dH = 1025 /\ dInfo # NoResult) => dInfo.size = 48

\* C1 witness: both calls have answered for the boundary size 1024 x 1025.
C1_Witness ==
    /\ dW = 1024 /\ dH = 1025
    /\ dConfig # NoResult /\ dConfig.logoSize = 48
    /\ dInfo # NoResult /\ dInfo.size = 48

\* C2 (as claimed): for positive dimensions the rectangle of getWatermarkInfo
\* is exactly {W - margin - logo, H - margin - logo, logo, logo} of the
\* selected tier, negative or not; 800 x 600 gives {720, 520, 48, 48} and
\* 2000 x 2000 gives {1872, 1872, 96, 96}.
C2_RectangleAsClaimed ==
    (dW > 0 /\ dH > 0 /\ dInfo # NoResult) =>
        LET logo == dInfo.size
            off  == IF logo = 96 THEN 64 + 96 ELSE 32 + 48
        IN  /\ logo \in {48, 96}
            /\ dInfo.position =
                 [x |-> dW - off, y |-> dH - off, width |-> logo, height |-> logo]
            /\ (dW = 800 /\ dH = 600) =>
                 dInfo.position = [x |-> 720, y |-> 520, width |-> 48, height |-> 48]
            /\ (dW = 2000 /\ dH = 2000) =>
                 dInfo.position = [x |-> 1872, y |-> 1872, width |-> 96, height |-> 96]

\* C2 (amended): the same rectangle rule (W - 80, H - 80, 48, 48 in the 48
\* tier and W - 160, H - 160, 96, 96 in the 96 tier, never adjusted), with
\* 800 x 600 giving {720, 520, 48, 48} and 2000 x 2000 giving
\* {1840, 1840, 96, 96}.
C2_RectangleArithmetic ==
    (dW > 0 /\ dH > 0 /\ dInfo # NoResult) =>
        LET logo == dInfo.size
            off  == IF logo = 96 THEN 64 + 96 ELSE 32 + 48
        IN  /\ logo \in {48, 96}
            /\ dInfo.position =
                 [x |-> dW - off, y |-> dH - off, width |-> logo, height |-> logo]
            /\ (dW = 800 /\ dH = 600) =>
                 dInfo.position = [x |-> 720, y |-> 520, width |-> 48, height |-> 48]
            /\ (dW = 2000 /\ dH = 2000) =>
                 dInfo.position = [x |-> 1840, y |-> 1840, width |-> 96, height |-> 96]

\* C2 witness: a rectangle with a negative corner has been returned unadjusted.
C2_Witness ==
    /\ dW > 0 /\ dH > 0 /\ dW < 80
    /\ dInfo # NoResult
    /\ dInfo.position.x = dW - 80
    /\ dInfo.position.x < 0

\* C7 (as claimed): non-positive dimensions passed to detection are rejected:
\* neither call produces a tier or a rectangle for them.
C7_NonPositiveRejected ==
    (dW <= 0 \/ dH <= 0) => (dConfig = NoResult /\ dInfo = NoResult)

\* C10 (as claimed): for positive dimensions the detected rectangle lies in
\* the image: x >= 0, y >= 0, x + width <= W, y + height <= H.
C10_RectangleInsideImage ==
    (dW > 0 /\ dH > 0 /\ dInfo # NoResult) =>
        /\ dInfo.position.x >= 0
        /\ dInfo.position.y >= 0
        /\ dInfo.position.x + dInfo.position.width <= dW
        /\ dInfo.position.y + dInfo.position.height <= dH

\* C10 (amended): for positive dimensions the detected rectangle never passes
\* the right or bottom edge (x + width <= W, y + height <= H) and its width
\* and height are positive; x >= 0 holds exactly when W >= 80 and y >= 0
\* exactly when H >= 80.
C10_RectangleInsideIffLargeEnough ==
    (dW > 0 /\ dH > 0 /\ dInfo # NoResult) =>
        /\ dInfo.position.width > 0
        /\ dInfo.position.height > 0
        /\ dInfo.position.x + dInfo.position.width <= dW
        /\ dInfo.position.y + dInfo.position.height <= dH
        /\ (dInfo.position.x >= 0) <=> (dW >= 80)
        /\ (dInfo.position.y >= 0) <=> (dH >= 80)

\* C10 witness: an image at least 80 wide and less than 80 high: the
\* rectangle returned starts above the image.
C10_Witness ==
    /\ dW >= 80 /\ dH > 0 /\ dH < 80
    /\ dInfo # NoResult
    /\ dInfo.position.x >= 0
    /\ dInfo.position.y < 0


\* C11 (as claimed): in every tier detectWatermarkConfig returns,
\* marginRight and marginBottom both equal logoSize / 2.
C11_MarginsHalfLogoSize ==
    dConfig # NoResult =>
        /\ 2 * dConfig.marginRight = dConfig.logoSize
        /\ 2 * dConfig.marginBottom = dConfig.logoSize

\* C11 (amended): in every tier detectWatermarkConfig returns, marginRight
\* and marginBottom both equal two thirds of logoSize: 32 for 48, 64 for 96.
C11_MarginsTwoThirdsLogoSize ==
    dConfig # NoResult =>
        /\ 3 * dConfig.marginRight = 2 * dConfig.logoSize
        /\ 3 * dConfig.marginBottom = 2 * dConfig.logoSize
        /\ dConfig.logoSize = 48 => dConfig.marginRight = 32
        /\ dConfig.logoSize = 96 => dConfig.marginRight = 64

\* C11 happens: detectWatermarkConfig has returned the 96 tier
C11_Witness ==
    /\ dW > TierThreshold
    /\ dH > TierThreshold
    /\ dConfig # NoResult
    /\ dConfig.logoSize = 96
    /\ dConfig.marginBottom = 64

(***************************************************************************)
(* Pixel buffers.  A pixel is <<r, g, b, a>>, each 0..255.  An image is    *)
(* [id, width, height]; its pixel at <<x, y>> is InputPixel(image, <<x,y>>)*)
(* (id 0 is the blank, transparent-black surface of a fresh canvas).       *)
(* Pixel arrays are kept by what determines them and read pixel by pixel:  *)
(* an ImageData buffer is [width, height, base, patch], the pixels copied  *)
(* from image `base` and rewritten by the removal `patch` applied to it.   *)
(***************************************************************************)
InputPixel(image, p) ==
    IF image.id = 0
    THEN <<0, 0, 0, 0>>
    ELSE LET r == (p[1] * 31 + p[2] * 17 + image.id * 5) % 256
             g == (p[1] * 7 + p[2] * 3 + image.id) % 256
         IN  <<r, g, 255 - r, 255>>

InRect(p, rect) ==
    /\ rect.x <= p[1] /\ p[1] < rect.x + rect.width
    /\ rect.y <= p[2] /\ p[2] < rect.y + rect.height

(***************************************************************************)
(* Reference captures (assets/bg_48.png, assets/bg_96.png) and the alpha   *)
(* calibration (core/alphaMap.js).  Neither is among the source files: the *)
(* captures are modelled as a gray diagonal stripe over the black          *)
(* calibration backdrop, the calibration from spec section 4.2.  An alpha  *)
(* coefficient is kept as its numerator over AlphaDen.                     *)
(***************************************************************************)
CaptureNative(name) == IF name = "bg96" THEN 96 ELSE 48

CapturePixel(name, p) ==
    LET d == IF p[1] >= p[2] THEN p[1] - p[2] ELSE p[2] - p[1]
        v == IF d = 0 THEN 255 ELSE IF d = 1 THEN 128 ELSE IF d = 2 THEN 51 ELSE 0
    IN  <<v, v, v, 255>>

\* three colour channels of 255 each: the deviation of a fully opaque pixel
AlphaDen == 765

Abs(n) == IF n < 0 THEN 0 - n ELSE n

\* lines 103-111: a canvas of the requested size, the capture drawn scaled
\* onto it, the canvas read back.  getImageData with a negative size reads
\* the rectangle left of / above the origin, which lies outside the canvas:
\* transparent black.  (A zero size throws: see getAlphaMap.)
ScaledCaptureData(bgImage, width, height) ==
    [width   |-> Abs(width),
     height  |-> Abs(height),
     capture |-> bgImage,
     scaleW  |-> width,
     scaleH  |-> height]

\* the pixel at p of the buffer ScaledCaptureData returned
ScaledCapturePixel(imageData, p) ==
    IF imageData.scaleW > 0 /\ imageData.scaleH > 0
    THEN CapturePixel(imageData.capture,
             <<(p[1] * CaptureNative(imageData.capture)) \div imageData.scaleW,
               (p[2] * CaptureNative(imageData.capture)) \div imageData.scaleH>>)
    ELSE <<0, 0, 0, 0>>

\* spec 4.2 step 3: per-channel deviation from the (black) backdrop, averaged,
\* normalised against the largest possible deviation, clamped to [0, 1]
AlphaCoefficient(px) == Min(AlphaDen, Max(0, px[1] + px[2] + px[3]))

\* calculateAlphaMap(imageData): a grid of the buffer's size, one coefficient
\* per pixel of it
calculateAlphaMap(imageData) ==
    [width |-> imageData.width, height |-> imageData.height, of |-> imageData]

\* the coefficient at p of an alpha map
AlphaAt(alphaMap, p) == AlphaCoefficient(ScaledCapturePixel(alphaMap.of, p))

(***************************************************************************)
(* WatermarkEngine.getAlphaMap (watermarkEngine.js 90-120).  The method is *)
(* async but awaits nothing: a call runs from its cache test to its cache  *)
(* store without interruption.                                             *)
(***************************************************************************)

\* the template literal `${width}x${height}`
CacheKey(width, height) == ToString(width) \o "x" \o ToString(height)

\* a plausible slip: the cache tested under another key than it is stored
CacheHit_WidthOnly(maps, width, height) == ToString(width) \in DOMAIN maps

\* if (this.alphaMaps[cacheKey]): an alpha map is an object, always truthy
CacheHit(maps, width, height) == CacheKey(width, height) \in DOMAIN maps

\* a plausible slip: >= for >
SelectCapture_AtLeast(width, height) ==
    IF Max(width, height) >= 72 THEN "bg96" ELSE "bg48"

\* the capture the heuristic picks
SelectCapture(width, height) ==
    IF Max(width, height) > 72 THEN "bg96" ELSE "bg48"

\* this.alphaMaps[cacheKey] = alphaMap
CacheStore(maps, width, height, alphaMap) ==
    [k \in DOMAIN maps \cup {CacheKey(width, height)} |->
        IF k = CacheKey(width, height) THEN alphaMap ELSE maps[k]]

\* how often calculateAlphaMap has run for (width, height)
Runs(count, width, height) ==
    IF <<width, height>> \in DOMAIN count THEN count[<<width, height>>] ELSE 0

CountRun(count, width, height) ==
    [k \in DOMAIN count \cup {<<width, height>>} |->
        IF k = <<width, height>> THEN Runs(count, width, height) + 1 ELSE count[k]]

\* The outcome of one getAlphaMap(width, height) call on cache `maps` after
\* the calculateAlphaMap runs `count`: whether it threw, the map returned
\* (ref is the identity of the array object: the run that made it), the
\* cache and the runs afterwards.
getAlphaMap(maps, count, width, height) ==
    IF CacheHit(maps, width, height)
    THEN [threw |-> FALSE, value |-> maps[CacheKey(width, height)],
          alphaMaps |-> maps, calcCount |-> count]
    ELSE IF width = 0 \/ height = 0
    THEN \* ctx.getImageData(0, 0, width, height) throws IndexSizeError
         [threw |-> TRUE, value |-> NoResult, alphaMaps |-> maps,
          calcCount |-> count]
    ELSE LET bgImage   == SelectCapture(width, height)
             imageData == ScaledCaptureData(bgImage, width, height)
             ref       == <<width, height, Runs(count, width, height) + 1>>
             alphaMap  == [ref |-> ref] @@ calculateAlphaMap(imageData)
         IN  [threw |-> FALSE, value |-> alphaMap,
              alphaMaps |-> CacheStore(maps, width, height, alphaMap),
              calcCount |-> CountRun(count, width, height)]

(***************************************************************************)
(* Removal transform (core/blendModes.js, not among the source files):     *)
(* modelled from spec section 4.3.                                         *)
(***************************************************************************)

\* the watermark graphic's own colour: white
LOGO_COLOR == 255

\* Math.round of num / den for den > 0: floor(num / den + 1/2)
RoundDiv(num, den) == (2 * num + den) \div (2 * den)

Clamp(v, lo, hi) == Max(lo, Min(hi, v))

\* one colour channel restored under alpha = a / AlphaDen
InvertChannel(observed, a) ==
    IF a < AlphaDen
    THEN Clamp(RoundDiv(AlphaDen * observed - a * LOGO_COLOR, AlphaDen - a), 0, 255)
    ELSE observed

\* the rectangle clipped to the image bounds: [x0, x1) x [y0, y1)
ClipRect(rect, width, height) ==
    [x0 |-> Max(rect.x, 0), x1 |-> Min(rect.x + rect.width, width),
     y0 |-> Max(rect.y, 0), y1 |-> Min(rect.y + rect.height, height)]

ClipEmpty(rect, width, height) ==
    LET c == ClipRect(rect, width, height)
    IN  c.x1 <= c.x0 \/ c.y1 <= c.y0

\* p is a pixel of the clipped rectangle
InClip(p, rect, width, height) ==
    LET c == ClipRect(rect, width, height)
    IN  /\ c.x0 <= p[1] /\ p[1] < c.x1
        /\ c.y0 <= p[2] /\ p[2] < c.y1

\* removeWatermark(imageData, alphaMap, position): the buffer afterwards
\* (every pixel of the clipped rectangle rewritten), or threw when the alpha
\* map's size is not the rectangle's
removeWatermark(imageData, alphaMap, position) ==
    IF ClipEmpty(position, imageData.width, imageData.height)
    THEN [threw |-> FALSE, imageData |-> imageData]
    ELSE IF alphaMap.width # position.width \/ alphaMap.height # position.height
    THEN [threw |-> TRUE, imageData |-> imageData]
    ELSE [threw |-> FALSE,
          imageData |-> [imageData EXCEPT
                            !.patch = [position |-> position, alphaMap |-> alphaMap]]]

\* the pixel at p of a buffer: rewritten by the buffer's patch inside the
\* patch's clipped rectangle, the base image's pixel elsewhere
BufferPixel(buffer, p) ==
    LET px == InputPixel([id |-> buffer.base, width |-> buffer.width,
                          height |-> buffer.height], p)
    IN  IF /\ buffer.patch # NoResult
           /\ InClip(p, buffer.patch.position, buffer.width, buffer.height)
        THEN LET a == AlphaAt(buffer.patch.alphaMap,
                              <<p[1] - buffer.patch.position.x,
                                p[2] - buffer.patch.position.y>>)
             IN  <<InvertChannel(px[1], a), InvertChannel(px[2], a),
                   InvertChannel(px[3], a), px[4]>>
        ELSE px

(***************************************************************************)
(* WatermarkEngine.removeWatermarkFromImage (watermarkEngine.js 128-161).  *)
(* It suspends once, at `await this.getAlphaMap(...)`: a call is two       *)
(* steps, and other calls on the engine may run between them.              *)
(***************************************************************************)
\* a plausible slip: the image never drawn onto the canvas
CanvasImageData_NotDrawn(image) ==
    [width |-> image.width, height |-> image.height, base |-> 0, patch |-> NoResult]

\* lines 130-139: a canvas of the image's size, the image drawn at (0, 0),
\* the whole canvas read: a copy of the image's pixels
CanvasImageData(image) ==
    [width |-> image.width, height |-> image.height, base |-> image.id,
     patch |-> NoResult]

\* lines 136-139 throw for an image with no pixels
CanvasThrows(image) == image.width = 0 \/ image.height = 0

\* lines 141-149: if (customPosition) ... else detect
ResolvePosition(width, height, custom) ==
    IF custom # NoPosition
    THEN custom
    ELSE calculateWatermarkPosition(width, height,
                                    detectWatermarkConfig(width, height))

Served(r, width, height) ==
    IF r.threw
    THEN {}
    ELSE {[width |-> width, height |-> height, ref |-> r.value.ref]}

\* up to the await: lines 128-152, getAlphaMap run to its end
RemoveStart(c, image, custom) ==
    /\ calls[c].pc = "idle"
    /\ IF CanvasThrows(image)
       THEN /\ calls' = [calls EXCEPT ![c] =
                   [pc |-> "rejected", image |-> image,
                    customPosition |-> custom, imageData |-> NoResult,
                    position |-> NoPosition, alpha |-> NoResult,
                    output |-> NoResult]]
            /\ UNCHANGED <<alphaMaps, calcCount, served>>
       ELSE LET imageData == CanvasImageData(image)
                position  == ResolvePosition(imageData.width, imageData.height,
                                             custom)
                r == getAlphaMap(alphaMaps, calcCount, position.width, position.height)
            IN  /\ calls' = [calls EXCEPT ![c] =
                       [pc |-> "awaitAlphaMap", image |-> image,
                        customPosition |-> custom,
                        imageData |-> imageData, position |-> position,
                        alpha |-> [threw |-> r.threw, value |-> r.value],
                        output |-> NoResult]]
                /\ alphaMaps' = r.alphaMaps
                /\ calcCount' = r.calcCount
                /\ served' = served \cup Served(r, position.width, position.height)
    /\ UNCHANGED <<detectVars, appVars>>

\* after the await: lines 152-160
RemoveResume(c) ==
    /\ calls[c].pc = "awaitAlphaMap"
    /\ LET call == calls[c]
           t == removeWatermark(call.imageData, call.alpha.value, call.position)
       IN  IF call.alpha.threw
           THEN calls' = [calls EXCEPT ![c].pc = "rejected"]
           ELSE IF t.threw
           THEN calls' = [calls EXCEPT ![c].pc = "rejected"]
           ELSE calls' = [calls EXCEPT ![c].pc = "returned",
                                       ![c].output = t.imageData]
    /\ UNCHANGED <<alphaMaps, calcCount, served>>
    /\ UNCHANGED <<detectVars, appVars>>

\* the caller is done with the call's result; the slot serves the next call
Forget(c) ==
    /\ calls[c].pc \in {"returned", "rejected"}
    /\ calls' = [calls EXCEPT ![c] = NoCall]
    /\ UNCHANGED <<alphaMaps, calcCount, served>>
    /\ UNCHANGED <<detectVars, appVars>>

\* a caller calls engine.getAlphaMap(width, height) itself
CallGetAlphaMap(width, height) ==
    /\ LET r == getAlphaMap(alphaMaps, calcCount, width, height)
       IN  /\ alphaMaps' = r.alphaMaps
           /\ calcCount' = r.calcCount
           /\ served' = served \cup Served(r, width, height)
    /\ UNCHANGED calls
    /\ UNCHANGED <<detectVars, appVars>>

(***************************************************************************)
(* SpecEngine: MaxCalls overlapping calls on one engine, over images of    *)
(* every kind (no pixels; smaller than the watermark; 48 tier; 96 tier)    *)
(* and override rectangles inside, across and outside the image bounds,    *)
(* without width, and of negative width.                                   *)
(***************************************************************************)
MaxCalls == 2

Calls == 1..MaxCalls

Rect(x, y, w, h) == [x |-> x, y |-> y, width |-> w, height |-> h]

Tiny  == [id |-> 1, width |-> 3, height |-> 2]         \* smaller than the watermark
Small == [id |-> 2, width |-> 100, height |-> 90]      \* 48 tier
Large == [id |-> 3, width |-> 1100, height |-> 1030]   \* 96 tier
Empty == [id |-> 4, width |-> 0, height |-> 5]         \* no pixels

Request(image, custom) ==
    [image |-> image, customPosition |-> custom]

\* the calls made: removeWatermarkFromImage(image, customPosition)
Requests ==
    { Request(Tiny, NoPosition),
      Request(Small, NoPosition),
      Request(Large, NoPosition),
      Request(Empty, NoPosition),
      Request(Tiny, Rect(1, 0, 2, 1)),         \* inside the image
      Request(Tiny, Rect(2, 1, 3, 2)),         \* across the right and bottom edge
      Request(Tiny, Rect(-1, -1, 3, 2)),       \* across the left and top edge
      Request(Small, Rect(5000, 0, 2, 1)),     \* right of the image
      Request(Tiny, Rect(5000, 0, 0, 2)),      \* right of the image, no width
      Request(Small, Rect(1, 1, -2, 1)) }      \* negative width

AlphaSizes == {<<48, 48>>, <<2, 1>>, <<0, 2>>}

EngineInit ==
    /\ alphaMaps = EmptyMap
    /\ calcCount = EmptyMap
    /\ served = {}
    /\ calls = [c \in Calls |-> NoCall]
    /\ DetectIdle
    /\ AppIdle

EngineNext ==
    \/ \E c \in Calls, req \in Requests :
          RemoveStart(c, req.image, req.customPosition)
    \/ \E c \in Calls : RemoveResume(c)
    \/ \E c \in Calls : Forget(c)
    \/ \E size \in AlphaSizes : CallGetAlphaMap(size[1], size[2])

SpecEngine == EngineInit /\ [][EngineNext]_vars

(***************************************************************************)
(* SpecAlpha: the alpha-map cache filled with maps of the sizes where the  *)
(* capture choice changes (a window around 72) and of the two native       *)
(* sizes, by getAlphaMap calls and by removals on images of both tiers     *)
(* with override rectangles of the other tier's size.                      *)
(***************************************************************************)
CaptureWindow == 1

\* the number of alpha maps an execution caches
MaxMaps == 2

CaptureSizes == ((72 - CaptureWindow)..(72 + CaptureWindow)) \cup {48, 96}

AlphaRequests ==
    { Request(Small, NoPosition),                \* 48 tier, detected
      Request(Large, NoPosition),                \* 96 tier, detected
      Request(Small, Rect(0, 0, 96, 80)),        \* 48 tier, larger override
      Request(Large, Rect(10, 10, 48, 48)),      \* 96 tier, smaller override
      Request(Large, Rect(10, 10, 72, 72)),
      Request(Small, Rect(1, 1, 40, 73)) }

AlphaNext ==
    \/ \E c \in Calls, req \in AlphaRequests :
          /\ Cardinality(DOMAIN alphaMaps) < MaxMaps
          /\ RemoveStart(c, req.image, req.customPosition)
    \/ \E c \in Calls : RemoveResume(c)
    \/ \E c \in Calls : Forget(c)
    \/ \E width \in CaptureSizes, height \in CaptureSizes :
          /\ Cardinality(DOMAIN alphaMaps) < MaxMaps
          /\ CallGetAlphaMap(width, height)

SpecAlpha == EngineInit /\ [][AlphaNext]_vars

(***************************************************************************)
(* Claims about the engine, checked under SpecEngine.                      *)
(***************************************************************************)

\* images up to this width and height are compared pixel by pixel
ProbeAllUpTo == 8

\* The pixels a call's output is compared at: every pixel of a small image;
\* of a larger one its corners and the ring of pixels around the rectangle.
ProbePixels(image, rect) ==
    LET inImage == (0..(image.width - 1)) \X (0..(image.height - 1))
        xs == (rect.x - 1)..(rect.x + rect.width)
        ys == (rect.y - 1)..(rect.y + rect.height)
        ring == (xs \X {rect.y - 1, rect.y + rect.height})
                    \cup ({rect.x - 1, rect.x + rect.width} \X ys)
        corners == {0, image.width - 1} \X {0, image.height - 1}
    IN  IF image.width <= ProbeAllUpTo /\ image.height <= ProbeAllUpTo
        THEN inImage
        ELSE {p \in ring \cup corners :
                 /\ 0 <= p[1] /\ p[1] < image.width
                 /\ 0 <= p[2] /\ p[2] < image.height}

C4_AlphaMapComputedOnce ==
    /\ \A k \in DOMAIN calcCount : calcCount[k] <= 1
    /\ \A s, t \in served :
          (s.width = t.width /\ s.height = t.height) => s.ref = t.ref
    /\ \A s \in served :
          /\ CacheKey(s.width, s.height) \in DOMAIN alphaMaps
          /\ alphaMaps[CacheKey(s.width, s.height)].ref = s.ref
    /\ \A c \in Calls :
          (calls[c].pc = "awaitAlphaMap" /\ ~calls[c].alpha.threw) =>
              LET w == calls[c].position.width
                  h == calls[c].position.height
              IN  /\ calls[c].alpha.value = alphaMaps[CacheKey(w, h)]
                  /\ calls[c].alpha.value.width = Abs(w)
                  /\ calls[c].alpha.value.height = Abs(h)

\* C4 witness: two calls for the same size overlap (both suspended at the
\* await), hold the same array, and calculateAlphaMap has run once for it.
C4_Witness ==
    \E c1, c2 \in Calls :
        /\ c1 # c2
        /\ calls[c1].pc = "awaitAlphaMap" /\ calls[c2].pc = "awaitAlphaMap"
        /\ calls[c1].image # calls[c2].image
        /\ calls[c1].position.width = 48 /\ calls[c2].position.width = 48
        /\ calls[c1].position.height = 48 /\ calls[c2].position.height = 48
        /\ calls[c1].alpha.value.ref = calls[c2].alpha.value.ref
        /\ calcCount[<<48, 48>>] = 1

\* C5 (as claimed): a removal on an image with pixels, with an override
\* rectangle that has no pixel inside the image (empty after clipping),
\* ends as a no-op: it returns, never fails, and its output is the input.
C5_OutOfBoundsIsNoOp ==
    \A c \in Calls :
        LET call == calls[c]
        IN  ( /\ call.pc \in {"returned", "rejected"}
              /\ ~CanvasThrows(call.image)
              /\ call.customPosition # NoPosition
              /\ ClipEmpty(call.customPosition, call.image.width, call.image.height) )
            => /\ call.pc = "returned"
               /\ \A p \in ProbePixels(call.image, call.customPosition) :
                     BufferPixel(call.output, p) = InputPixel(call.image, p)

\* a malformed rectangle: negative size (spec section 7, InvalidRectangle)
Malformed(rect) == rect.width < 0 \/ rect.height < 0

\* C6 (as claimed): the rectangle a call resolves is the override when one
\* is given and it is valid, and the detected rectangle otherwise: an
\* override of negative size is never the rectangle used.
C6_InvalidOverrideNotUsed ==
    \A c \in Calls :
        calls[c].pc \in {"awaitAlphaMap", "returned"} =>
            LET call == calls[c]
                detected == getWatermarkInfo(call.image.width,
                                             call.image.height).position
            IN  call.position =
                    IF call.customPosition # NoPosition
                           /\ ~Malformed(call.customPosition)
                    THEN call.customPosition
                    ELSE detected

\* C13: in every removeWatermarkFromImage call, the alpha map handed to the
\* removal transform has the width and the height of that call's rectangle.
C13_AlphaMapMatchesRectangle ==
    \A c \in DOMAIN calls :
        (calls[c].pc \in {"awaitAlphaMap", "returned"} /\ ~calls[c].alpha.threw) =>
            /\ calls[c].alpha.value.width = calls[c].position.width
            /\ calls[c].alpha.value.height = calls[c].position.height

(***************************************************************************)
(* Claims about the capture choice, checked under SpecAlpha.               *)
(***************************************************************************)

\* the capture the claim names for a requested size
ClaimedCapture(width, height) ==
    IF width > 72 \/ height > 72 THEN "bg96" ELSE "bg48"

\* C12: every cached alpha map, and every map a removal was given, was
\* derived from the 96-native capture exactly when the larger of the
\* requested width and height exceeds 72, and from the 48-native capture
\* otherwise, whatever the tier of the image it is used on.
C12_CaptureChoice ==
    /\ \A k \in DOMAIN alphaMaps :
          LET alphaMap == alphaMaps[k]
          IN  /\ k = CacheKey(alphaMap.ref[1], alphaMap.ref[2])
              /\ alphaMap.of.capture =
                     ClaimedCapture(alphaMap.ref[1], alphaMap.ref[2])
    /\ \A c \in DOMAIN calls :
          (calls[c].pc \in {"awaitAlphaMap", "returned"} /\ ~calls[c].alpha.threw) =>
              calls[c].alpha.value.of.capture =
                  ClaimedCapture(calls[c].position.width, calls[c].position.height)

\* C12 happens: the 72 x 72 map was derived from the 48 capture, and a
\* removal on a 96-tier image with a 48 x 48 override got a 48-capture map
C12_Witness ==
    /\ CacheKey(72, 72) \in DOMAIN alphaMaps
    /\ alphaMaps[CacheKey(72, 72)].of.capture = "bg48"
    /\ \E c \in DOMAIN calls :
          /\ calls[c].pc = "returned"
          /\ calls[c].image = Large
          /\ calls[c].position.width = 48
          /\ calls[c].alpha.value.of.capture = "bg48"

(***************************************************************************)
(* The application (app.js).  init() runs once, at module load; user       *)
(* events reach a handler only once its listener is registered; the async  *)
(* functions (init, processSingle, processQueue and its per-item           *)
(* callbacks) advance one await at a time, in any order.                   *)
(***************************************************************************)
\* setupLanguageSwitch (lines 66-75)
LangListeners == {"langSwitch.click"}

\* setupEventListeners (lines 80-101)
EventListeners ==
    {"uploadArea.click", "fileInput.change", "uploadArea.dragover",
     "uploadArea.dragleave", "uploadArea.drop", "downloadAllBtn.click",
     "resetBtn.click"}

\* setupCustomMode (lines 339-353)
CustomModeListeners ==
    {"toggleCustomBtn.click", "watermarkBox.mousedown", "window.mousemove",
     "window.mouseup", "window.keydown", "window.resize"}

\* a plausible slip: the event and custom-mode listeners registered with the
\* language switch, before the engine exists
ListenersBeforeCreate_All ==
    LangListeners \cup EventListeners \cup CustomModeListeners

\* the listeners init registers before it awaits WatermarkEngine.create()
ListenersBeforeCreate == LangListeners

\* the listeners init registers once WatermarkEngine.create() has resolved
ListenersAfterCreate == EventListeners \cup CustomModeListeners

\* a plausible slip: Promise.any / Promise.race for Promise.all
PromiseAll_Any(s48, s96) ==
    IF "loaded" \in {s48, s96} THEN "fulfilled"
    ELSE IF s48 = "error" /\ s96 = "error" THEN "rejected"
    ELSE "pending"

\* the state of Promise.all([bg48 loads, bg96 loads]) (lines 68-79): rejected
\* with the first capture that fails, fulfilled when both have loaded
PromiseAll(s48, s96) ==
    IF "error" \in {s48, s96} THEN "rejected"
    ELSE IF s48 = "loaded" /\ s96 = "loaded" THEN "fulfilled"
    ELSE "pending"

\* new WatermarkEngine({ bg48, bg96 }): the captures as they are at that time
NewEngine(s48, s96) == [bg48 |-> s48, bg96 |-> s96]

\* init() is called (line 334) and runs to `await i18n.init()`
InitCall ==
    /\ initPc = "start"
    /\ initPc' = "i18n"
    /\ UNCHANGED <<bg48, bg96, engine, createCalls, listeners>>
    /\ UNCHANGED <<queueVars, editVars, taskVars, engineLog, events, dropped>>
    /\ UNCHANGED <<detectVars, engineVars>>

\* i18n.init() settles.  Resolved: lines 43-46, to the await of
\* WatermarkEngine.create(), which starts both capture loads (lines 65-78).
\* Rejected: the catch (lines 57-60).
I18nSettled(ok) ==
    /\ initPc = "i18n"
    /\ IF ok
       THEN /\ listeners' = listeners \cup ListenersBeforeCreate
            /\ createCalls' = createCalls + 1
            /\ bg48' = "loading"
            /\ bg96' = "loading"
            /\ initPc' = "create"
       ELSE /\ initPc' = "failed"
            /\ UNCHANGED <<bg48, bg96, createCalls, listeners>>
    /\ UNCHANGED engine
    /\ UNCHANGED <<queueVars, editVars, taskVars, engineLog, events, dropped>>
    /\ UNCHANGED <<detectVars, engineVars>>

\* bg48.onload / bg48.onerror
Bg48Settled(ok) ==
    /\ bg48 = "loading"
    /\ bg48' = IF ok THEN "loaded" ELSE "error"
    /\ UNCHANGED <<initPc, bg96, engine, createCalls, listeners>>
    /\ UNCHANGED <<queueVars, editVars, taskVars, engineLog, events, dropped>>
    /\ UNCHANGED <<detectVars, engineVars>>

\* bg96.onload / bg96.onerror
Bg96Settled(ok) ==
    /\ bg96 = "loading"
    /\ bg96' = IF ok THEN "loaded" ELSE "error"
    /\ UNCHANGED <<initPc, bg48, engine, createCalls, listeners>>
    /\ UNCHANGED <<queueVars, editVars, taskVars, engineLog, events, dropped>>
    /\ UNCHANGED <<detectVars, engineVars>>

\* WatermarkEngine.create() settles and init resumes.  Fulfilled: create
\* returns the engine (line 81), init stores it and registers the listeners
\* (lines 46-56).  Rejected: the catch (lines 57-60); engine stays null.
CreateSettled ==
    /\ initPc = "create"
    /\ PromiseAll(bg48, bg96) # "pending"
    /\ IF PromiseAll(bg48, bg96) = "fulfilled"
       THEN /\ engine' = NewEngine(bg48, bg96)
            /\ listeners' = listeners \cup ListenersAfterCreate
            /\ initPc' = "ready"
       ELSE /\ initPc' = "failed"
            /\ UNCHANGED <<engine, listeners>>
    /\ UNCHANGED <<bg48, bg96, createCalls>>
    /\ UNCHANGED <<queueVars, editVars, taskVars, engineLog, events, dropped>>
    /\ UNCHANGED <<detectVars, engineVars>>

(***************************************************************************)
(* Files, queue items and the engine as the application calls it.          *)
(***************************************************************************)

\* the file.type values that match 'image/(jpeg|png|webp)' (line 126)
AcceptedTypes == {"image/jpeg", "image/png", "image/webp"}

\* 20 * 1024 * 1024 (line 127)
MaxFileSize == 20971520

\* the filter of handleFiles (lines 125-129)
ValidFile(file) == file.type \in AcceptedTypes /\ ~(file.size > MaxFileSize)

\* the items handleFiles builds (lines 138-147); an item is named by its
\* index in items (Date.now() + index of the code: distinct for every item).
\* Two fields are instrumentation: batch tells an item of a selection of
\* several files, trace lists the values assigned to item.status and the
\* calls of engine.removeWatermarkFromImage made with the item's image
NewItem(file) ==
    [file |-> file, status |-> "pending", originalImg |-> NoItem,
     processedBlob |-> NoResult, batch |-> FALSE, trace |-> <<>>]

\* item.status = status (lines 250, 261, 283)
SetStatus(item, status) ==
    [item EXCEPT !.status = status, !.trace = Append(@, status)]

\* engine.removeWatermarkFromImage is called with the item's image
\* (lines 187, 254)
NoteRemoval(item) == [item EXCEPT !.trace = Append(@, "removal")]

\* a call of a method of the `engine` variable, as the call sites make it
EngineCall(site, method) ==
    [site |-> site, method |-> method, ready |-> engine # NoEngine,
     initPc |-> initPc]

\* the call of line 187, with the item processed, the position passed and
\* the item that position was set on
RemovalCall(item) ==
    [site |-> 187, method |-> "removeWatermarkFromImage",
     ready |-> engine # NoEngine, initPc |-> initPc, item |-> item,
     custom |-> IF isCustomMode THEN customPosition ELSE NoPosition,
     customOf |-> IF isCustomMode /\ customPosition # NoPosition
                  THEN positionItem ELSE NoItem]

\* removeWatermarkFromImage as its caller sees it: the promise it returns
\* is rejected or fulfilled with the processed canvas; its continuation
\* after the await of getAlphaMap runs with no event in between
removeWatermarkFromImage(maps, count, image, position) ==
    IF CanvasThrows(image)
    THEN [rejected |-> TRUE, output |-> NoResult, alphaMaps |-> maps,
          calcCount |-> count]
    ELSE LET imageData == CanvasImageData(image)
             pos == ResolvePosition(imageData.width, imageData.height, position)
             r   == getAlphaMap(maps, count, pos.width, pos.height)
             t   == removeWatermark(imageData, r.value, pos)
         IN  IF r.threw
             THEN [rejected |-> TRUE, output |-> NoResult,
                   alphaMaps |-> r.alphaMaps, calcCount |-> r.calcCount]
             ELSE IF t.threw
             THEN [rejected |-> TRUE, output |-> NoResult,
                   alphaMaps |-> r.alphaMaps, calcCount |-> r.calcCount]
             ELSE [rejected |-> FALSE, output |-> t.imageData,
                   alphaMaps |-> r.alphaMaps, calcCount |-> r.calcCount]

\* a suspended async function: processSingle, or a callback of processQueue
Task(kind, item, pc, run, output) ==
    [kind |-> kind, item |-> item, pc |-> pc, run |-> run, output |-> output]

Spawn(bag, t) == bag (+) SetToBag({t})
Retire(bag, t) == bag (-) SetToBag({t})

\* processSingle(item) up to its first await (line 168)
processSingle(item) == Task("single", item, "loadImage", 0, NoResult)

(***************************************************************************)
(* processQueue (lines 236-293).  A run is one call of processQueue; it    *)
(* reads the global imageQueue anew at every loop test and slice.          *)
(***************************************************************************)
Concurrency == 3

\* imageQueue.slice(i, i + concurrency), i counted from 0
Slice(queue, i) ==
    SubSeq(queue, i + 1, Min(i + Concurrency, Len(queue)))

\* the synchronous part of the callbacks of one slice (lines 248-254), in
\* order, from acc = [items, alphaMaps, calcCount, tasks, waiting, log]
RECURSIVE StartSlice(_, _, _)
StartSlice(slice, run, acc) ==
    IF slice = <<>>
    THEN acc
    ELSE LET id == Head(slice)
             it == acc.items[id]
         IN  IF it.status # "pending"
             THEN StartSlice(Tail(slice), run, acc)
             ELSE IF engine = NoEngine \/ it.originalImg = NoItem
             THEN \* TypeError, caught at line 282
                  StartSlice(Tail(slice), run,
                      [acc EXCEPT
                          !.items[id] =
                              SetStatus(IF engine = NoEngine
                                        THEN SetStatus(@, "processing")
                                        ELSE NoteRemoval(SetStatus(@, "processing")),
                                        "error"),
                          !.log = @ \cup {EngineCall(254, "removeWatermarkFromImage")}])
             ELSE LET r == removeWatermarkFromImage(acc.alphaMaps, acc.calcCount,
                                                    it.originalImg, NoPosition)
                  IN  StartSlice(Tail(slice), run,
                          [acc EXCEPT
                              !.items[id] =
                                  IF r.rejected
                                  THEN SetStatus(NoteRemoval(SetStatus(@, "processing")),
                                                 "error")
                                  ELSE NoteRemoval(SetStatus(@, "processing")),
                              !.alphaMaps = r.alphaMaps,
                              !.calcCount = r.calcCount,
                              !.tasks = IF r.rejected THEN @
                                        ELSE Spawn(@, Task("qitem", id, "toBlob", run, r.output)),
                              !.waiting = IF r.rejected THEN @ ELSE @ + 1,
                              !.log = @ \cup {EngineCall(254, "removeWatermarkFromImage")}])

\* the loop of lines 246-288 from index i, up to the next await that has
\* something to wait for, or to the end of the function
RECURSIVE RunLoop(_, _, _)
RunLoop(run, i, acc) ==
    IF ~(i < Len(imageQueue))
    THEN [acc EXCEPT !.pc = "done", !.i = i]
    ELSE LET next == StartSlice(Slice(imageQueue, i), run, [acc EXCEPT !.waiting = 0])
         IN  IF next.waiting = 0
             THEN RunLoop(run, i + Concurrency, next)
             ELSE [next EXCEPT !.pc = "awaitBatch", !.i = i]

(***************************************************************************)
(* The custom-mode editor (lines 358-582).  The scale factors the layout   *)
(* gives the image are 1 and 2; CSS lengths of the overlay box are counted *)
(* in 1/SubPx pixel, which keeps the divisions by these factors exact.     *)
(***************************************************************************)
Scales == {1, 2}

SubPx == CHOOSE n \in Scales : \A m \in Scales : n >= m

\* Math.round of n / SubPx: halves round towards +infinity
MathRound(n) == (2 * n + SubPx) \div (2 * SubPx)

\* getScaleFactor (lines 396-400): 1 while the original image has no layout
\* box, natural width over rendered width otherwise
ScaleFactor(ratio) ==
    IF preview # "single" \/ displayed = NoItem THEN 1 ELSE ratio

getScaleFactor == ScaleFactor(scale)

\* a CSS width or height keeps its old value when set to a negative length
SetLength(old, new) == IF new < 0 THEN old ELSE new

\* updateWatermarkOverlay (lines 406-413) under a given scale factor
OverlayBox(pos, factor) ==
    [left   |-> (SubPx * pos.x) \div factor,
     top    |-> (SubPx * pos.y) \div factor,
     width  |-> SetLength(box.width, (SubPx * pos.width) \div factor),
     height |-> SetLength(box.height, (SubPx * pos.height) \div factor)]

updateWatermarkOverlay(pos) == OverlayBox(pos, getScaleFactor)

\* the minimum box size of onDrag, Math.max(20, ...) (lines 455-466)
MinBoxPx == 20

\* onDrag (lines 440-483) for a drag in progress: the new box
onDrag(deltaX, deltaY) ==
    LET d  == dragState
        dx == SubPx * deltaX
        dy == SubPx * deltaY
        m  == SubPx * MinBoxPx
    IN  IF d.handle # {}
        THEN LET wE == IF "e" \in d.handle THEN Max(m, d.startWidth + dx)
                       ELSE d.startWidth
                 hS == IF "s" \in d.handle THEN Max(m, d.startHeight + dy)
                       ELSE d.startHeight
                 wW == Max(m, d.startWidth - dx)
                 hN == Max(m, d.startHeight - dy)
             IN  [width  |-> IF "w" \in d.handle THEN wW ELSE wE,
                  height |-> IF "n" \in d.handle THEN hN ELSE hS,
                  left   |-> IF "w" \in d.handle
                             THEN d.startLeft + (d.startWidth - wW)
                             ELSE d.startLeft,
                  top    |-> IF "n" \in d.handle
                             THEN d.startTop + (d.startHeight - hN)
                             ELSE d.startTop]
        ELSE [box EXCEPT !.left = d.startLeft + dx, !.top = d.startTop + dy]

\* imageQueue[0], or NoItem for undefined
FirstItem == IF Len(imageQueue) = 0 THEN NoItem ELSE [id |-> imageQueue[1]]

\* stopDrag (lines 493-512): the custom position read back from the box
stopDrag ==
    LET s == getScaleFactor
        p == [x      |-> MathRound(box.left * s),
              y      |-> MathRound(box.top * s),
              width  |-> MathRound(box.width * s),
              height |-> MathRound(box.height * s)]
    IN  IF FirstItem # NoItem /\ items[FirstItem.id].originalImg # NoItem
        THEN LET img == items[FirstItem.id].originalImg
             IN  [p EXCEPT !.x = Max(0, Min(p.x, img.width - p.width)),
                           !.y = Max(0, Min(p.y, img.height - p.height))]
        ELSE p

\* the minimum size of handleKeyDown (lines 557-558)
MinSize == 20

\* handleKeyDown (lines 532-572): the new custom position
handleKeyDown(key, shiftKey) ==
    LET c == customPosition
        moved ==
            IF shiftKey
            THEN [c EXCEPT
                    !.height = IF key = "ArrowUp" THEN @ - 1
                               ELSE IF key = "ArrowDown" THEN @ + 1 ELSE @,
                    !.width  = IF key = "ArrowLeft" THEN @ - 1
                               ELSE IF key = "ArrowRight" THEN @ + 1 ELSE @]
            ELSE [c EXCEPT
                    !.y = IF key = "ArrowUp" THEN @ - 1
                          ELSE IF key = "ArrowDown" THEN @ + 1 ELSE @,
                    !.x = IF key = "ArrowLeft" THEN @ - 1
                          ELSE IF key = "ArrowRight" THEN @ + 1 ELSE @]
    IN  IF FirstItem # NoItem /\ items[FirstItem.id].originalImg # NoItem
        THEN LET img == items[FirstItem.id].originalImg
                 w   == Max(MinSize, moved.width)
                 h   == Max(MinSize, moved.height)
             IN  IF ~shiftKey
                 THEN [x |-> Max(0, Min(moved.x, img.width - w)),
                       y |-> Max(0, Min(moved.y, img.height - h)),
                       width |-> w, height |-> h]
                 ELSE [x |-> moved.x, y |-> moved.y,
                       width  |-> Min(w, img.width - moved.x),
                       height |-> Min(h, img.height - moved.y)]
        ELSE moved

ArrowKeys == {"ArrowUp", "ArrowDown", "ArrowLeft", "ArrowRight"}

(***************************************************************************)
(* User events.  An event whose listener is not registered reaches no      *)
(* handler; `dropped` remembers that this has happened.  `events` counts   *)
(* the events whose handler ran past its early returns.                    *)
(***************************************************************************)
\* the number of handled user events an execution is followed for
MaxEvents == 4

\* the number of queue items an execution builds
MaxItems == 4

Range(seq) == {seq[k] : k \in DOMAIN seq}

\* handleFiles (lines 124-164)
handleFiles(files) ==
    LET validFiles == SelectSeq(files, ValidFile)
        n   == Len(validFiles)
        ids == [k \in 1..n |-> Len(items) + k]
        run == Len(runs) + 1
    IN  IF n = 0
        THEN UNCHANGED <<queueVars, taskVars>>
        ELSE /\ items' = items \o
                      [k \in 1..n |-> [NewItem(validFiles[k]) EXCEPT !.batch = n > 1]]
             /\ imageQueue' = ids
             /\ processedCount' = 0
             /\ IF n = 1
                THEN /\ preview' = "single"
                     /\ tasks' = Spawn(tasks, processSingle(ids[1]))
                     /\ UNCHANGED <<cards, runs>>
                ELSE /\ preview' = "multi"
                     /\ cards' = Range(ids)
                     /\ runs' = Append(runs, [pc |-> "loading", i |-> 0, waiting |-> n])
                     /\ tasks' = tasks (+) SetToBag(
                            {Task("qload", ids[k], "loadImage", run, NoResult) : k \in 1..n})
             /\ UNCHANGED <<displayed, processedImage, toggleShown>>

\* the user picks files (fileInput change) or drops them (uploadArea drop),
\* in an execution that builds at most `most` items
UserFilesUpTo(via, files, most) ==
    /\ events < MaxEvents
    /\ Len(items) + Len(SelectSeq(files, ValidFile)) <= most
    /\ IF via \in listeners
       THEN /\ handleFiles(files)
            /\ events' = IF Len(SelectSeq(files, ValidFile)) = 0 THEN events
                          ELSE events + 1
            /\ UNCHANGED dropped
       ELSE dropped' = TRUE /\ UNCHANGED <<queueVars, taskVars, events>>
    /\ UNCHANGED <<initVars, editVars, engineLog>>
    /\ UNCHANGED <<detectVars, engineVars>>

UserFiles(via, files) == UserFilesUpTo(via, files, MaxItems)

\* reset (lines 103-118)
UserReset ==
    /\ events < MaxEvents
    /\ IF "resetBtn.click" \in listeners
       THEN /\ events' = events + 1
            /\ preview' = "none"
            /\ imageQueue' = <<>>
            /\ processedCount' = 0
            /\ isCustomMode' = FALSE
            /\ customPosition' = NoPosition
            /\ positionItem' = NoItem
            /\ toggleShown' = FALSE
            /\ overlayShown' = FALSE
            /\ UNCHANGED <<items, cards, displayed, processedImage>>
            /\ UNCHANGED <<dragState, box, scale, processTimeout, dropped>>
       ELSE dropped' = TRUE /\ UNCHANGED <<queueVars, editVars, events>>
    /\ UNCHANGED <<initVars, taskVars, engineLog>>
    /\ UNCHANGED <<detectVars, engineVars>>

\* toggleCustomMode (lines 358-391); the button can be clicked once
\* processSingle has shown it (line 185)
toggleCustomMode ==
    /\ isCustomMode' = ~isCustomMode
    /\ IF FirstItem = NoItem
       THEN UNCHANGED <<customPosition, positionItem, box, overlayShown, tasks, engineLog>>
       ELSE IF items[FirstItem.id].originalImg = NoItem
       THEN UNCHANGED <<customPosition, positionItem, box, overlayShown, tasks, engineLog>>
       ELSE IF ~isCustomMode
       THEN /\ overlayShown' = TRUE
            /\ IF customPosition # NoPosition
               THEN /\ box' = updateWatermarkOverlay(customPosition)
                    /\ UNCHANGED <<customPosition, positionItem, engineLog>>
               ELSE /\ engineLog' = engineLog \cup {EngineCall(374, "getWatermarkInfo")}
                    /\ IF engine = NoEngine
                       THEN UNCHANGED <<customPosition, positionItem, box>>
                       ELSE LET img  == items[FirstItem.id].originalImg
                                info == getWatermarkInfo(img.width, img.height)
                            IN  /\ customPosition' = info.position
                                /\ positionItem' = FirstItem
                                /\ box' = updateWatermarkOverlay(info.position)
            /\ UNCHANGED tasks
       ELSE /\ overlayShown' = FALSE
            /\ customPosition' = NoPosition
            /\ positionItem' = NoItem
            /\ tasks' = Spawn(tasks, processSingle(FirstItem.id))
            /\ UNCHANGED <<box, engineLog>>

UserToggle ==
    /\ events < MaxEvents
    /\ toggleShown /\ preview = "single"
    /\ IF "toggleCustomBtn.click" \in listeners
       THEN toggleCustomMode /\ events' = events + 1 /\ UNCHANGED dropped
       ELSE /\ dropped' = TRUE
            /\ UNCHANGED <<isCustomMode, customPosition, positionItem, box, overlayShown, tasks,
                           engineLog, events>>
    /\ UNCHANGED <<initVars, queueVars, dragState, scale, processTimeout, runs>>
    /\ UNCHANGED <<detectVars, engineVars>>

\* startDrag (lines 418-435): mousedown on the overlay box or a handle of it
UserMouseDown(handle) ==
    /\ events < MaxEvents
    /\ overlayShown /\ preview = "single"
    /\ IF "watermarkBox.mousedown" \in listeners
       THEN /\ IF ~isCustomMode
               THEN UNCHANGED <<dragState, events>>
               ELSE /\ dragState' =
                          [startLeft |-> box.left, startTop |-> box.top,
                           startWidth |-> box.width, startHeight |-> box.height,
                           scale |-> getScaleFactor, handle |-> handle]
                    /\ events' = events + 1
            /\ UNCHANGED dropped
       ELSE dropped' = TRUE /\ UNCHANGED <<dragState, events>>
    /\ UNCHANGED <<isCustomMode, customPosition, positionItem, box, overlayShown, scale, processTimeout>>
    /\ UNCHANGED <<initVars, queueVars, taskVars, engineLog>>
    /\ UNCHANGED <<detectVars, engineVars>>

\* mousemove on the window, (deltaX, deltaY) from where the drag started
UserMouseMove(deltaX, deltaY) ==
    /\ events < MaxEvents
    /\ IF "window.mousemove" \in listeners
       THEN /\ IF dragState = NoDrag
               THEN UNCHANGED <<box, events>>
               ELSE box' = onDrag(deltaX, deltaY) /\ events' = events + 1
            /\ UNCHANGED dropped
       ELSE dropped' = TRUE /\ UNCHANGED <<box, events>>
    /\ UNCHANGED <<isCustomMode, customPosition, positionItem, dragState, overlayShown, scale, processTimeout>>
    /\ UNCHANGED <<initVars, queueVars, taskVars, engineLog>>
    /\ UNCHANGED <<detectVars, engineVars>>

\* mouseup on the window: stopDrag (lines 488-518)
UserMouseUp ==
    /\ events < MaxEvents
    /\ IF "window.mouseup" \in listeners
       THEN /\ IF dragState = NoDrag
               THEN UNCHANGED <<dragState, customPosition, positionItem, tasks, events>>
               ELSE /\ dragState' = NoDrag
                    /\ events' = events + 1
                    /\ customPosition' = stopDrag
                    /\ positionItem' = FirstItem
                    /\ tasks' = IF FirstItem = NoItem THEN tasks
                                ELSE Spawn(tasks, processSingle(FirstItem.id))
            /\ UNCHANGED dropped
       ELSE dropped' = TRUE /\ UNCHANGED <<dragState, customPosition, positionItem, tasks, events>>
    /\ UNCHANGED <<isCustomMode, box, overlayShown, scale, processTimeout, runs>>
    /\ UNCHANGED <<initVars, queueVars, engineLog>>
    /\ UNCHANGED <<detectVars, engineVars>>

\* keydown on the window: handleKeyDown (lines 524-582)
UserKeyDown(key, shiftKey) ==
    /\ events < MaxEvents
    /\ IF "window.keydown" \in listeners
       THEN /\ IF ~isCustomMode \/ customPosition = NoPosition \/ key \notin ArrowKeys
               THEN UNCHANGED <<customPosition, positionItem, box, processTimeout, events>>
               ELSE /\ events' = events + 1
                    /\ customPosition' = handleKeyDown(key, shiftKey)
                    /\ positionItem' = FirstItem
                    /\ box' = updateWatermarkOverlay(handleKeyDown(key, shiftKey))
                    /\ processTimeout' = [item |-> FirstItem]
            /\ UNCHANGED dropped
       ELSE dropped' = TRUE /\ UNCHANGED <<customPosition, positionItem, box, processTimeout, events>>
    /\ UNCHANGED <<isCustomMode, dragState, overlayShown, scale>>
    /\ UNCHANGED <<initVars, queueVars, taskVars, engineLog>>
    /\ UNCHANGED <<detectVars, engineVars>>

\* the 50 ms timer of handleKeyDown fires (lines 577-581)
TimerFire ==
    /\ processTimeout # NoTimer
    /\ processTimeout' = NoTimer
    /\ tasks' = IF processTimeout.item = NoItem THEN tasks
                ELSE Spawn(tasks, processSingle(processTimeout.item.id))
    /\ UNCHANGED <<isCustomMode, customPosition, positionItem, dragState, box, overlayShown, scale, runs>>
    /\ UNCHANGED <<initVars, queueVars, engineLog, events, dropped>>
    /\ UNCHANGED <<detectVars, engineVars>>

\* the window is resized: the layout gives the image a new scale factor, and
\* the resize listener redraws the overlay (lines 348-352)
UserResize(s) ==
    /\ events < MaxEvents
    /\ scale' = s
    /\ IF "window.resize" \in listeners
       THEN /\ events' = events + 1
            /\ box' = IF isCustomMode /\ customPosition # NoPosition
                      THEN OverlayBox(customPosition, ScaleFactor(s))
                      ELSE box
            /\ UNCHANGED dropped
       ELSE dropped' = TRUE /\ UNCHANGED <<box, events>>
    /\ UNCHANGED <<isCustomMode, customPosition, positionItem, dragState, overlayShown, processTimeout>>
    /\ UNCHANGED <<initVars, queueVars, taskVars, engineLog>>
    /\ UNCHANGED <<detectVars, engineVars>>

(***************************************************************************)
(* The suspended async functions resume.  loadImage and checkOriginal      *)
(* (utils.js, not among the source files) settle either way.               *)
(***************************************************************************)

\* processSingle: loadImage(item.file) settles (lines 168-169, 208-210)
SingleLoadSettled(t, ok) ==
    /\ t.kind = "single" /\ t.pc = "loadImage"
    /\ IF ok /\ items[t.item].file.decodes
       THEN /\ items' = [items EXCEPT ![t.item].originalImg = items[t.item].file.image]
            /\ tasks' = Spawn(Retire(tasks, t), [t EXCEPT !.pc = "checkOriginal"])
       ELSE /\ tasks' = Retire(tasks, t)
            /\ UNCHANGED items
    /\ UNCHANGED <<imageQueue, processedCount, cards, preview, displayed, processedImage, toggleShown>>
    /\ UNCHANGED <<initVars, editVars, runs, engineLog, events, dropped>>
    /\ UNCHANGED <<detectVars, engineVars>>

\* processSingle: checkOriginal settles; lines 171-188 up to the toBlob
\* callback, or the catch of line 208
SingleCheckSettled(t, ok) ==
    /\ t.kind = "single" /\ t.pc = "checkOriginal"
    /\ IF ~ok
       THEN /\ tasks' = Retire(tasks, t)
            /\ UNCHANGED <<items, displayed, toggleShown, engineLog, alphaMaps, calcCount>>
       ELSE /\ displayed' = [id |-> t.item]
            /\ IF engine = NoEngine
               THEN /\ engineLog' = engineLog \cup {EngineCall(177, "getWatermarkInfo")}
                    /\ tasks' = Retire(tasks, t)
                    /\ UNCHANGED <<items, toggleShown, alphaMaps, calcCount>>
               ELSE LET img == items[t.item].originalImg
                        r == removeWatermarkFromImage(alphaMaps, calcCount, img,
                                 IF isCustomMode THEN customPosition ELSE NoPosition)
                    IN  /\ engineLog' = engineLog \cup
                               {EngineCall(177, "getWatermarkInfo"),
                                RemovalCall(t.item)}
                        /\ items' = [items EXCEPT ![t.item] = NoteRemoval(@)]
                        /\ toggleShown' = TRUE
                        /\ alphaMaps' = r.alphaMaps
                        /\ calcCount' = r.calcCount
                        /\ tasks' = IF r.rejected THEN Retire(tasks, t)
                                    ELSE Spawn(Retire(tasks, t),
                                               [t EXCEPT !.pc = "toBlob", !.output = r.output])
    /\ UNCHANGED <<imageQueue, processedCount, cards, preview, processedImage>>
    /\ UNCHANGED <<initVars, editVars, runs, events, dropped>>
    /\ UNCHANGED <<detectVars, served, calls>>

\* processSingle: the toBlob callback (lines 188-207)
SingleToBlob(t) ==
    /\ t.kind = "single" /\ t.pc = "toBlob"
    /\ items' = [items EXCEPT ![t.item].processedBlob = t.output]
    /\ processedImage' = [id |-> t.item, output |-> t.output]
    /\ tasks' = Retire(tasks, t)
    /\ UNCHANGED <<imageQueue, processedCount, cards, preview, displayed, toggleShown>>
    /\ UNCHANGED <<initVars, editVars, runs, engineLog, events, dropped>>
    /\ UNCHANGED <<detectVars, engineVars>>

\* the state a run's loop leaves behind, from index i
Continue(run, i, its, bag, log) ==
    RunLoop(run, i, [items |-> its, alphaMaps |-> alphaMaps, calcCount |-> calcCount,
                     tasks |-> bag, waiting |-> 0, log |-> log, pc |-> "loading",
                     i |-> i])

\* processQueue: a callback of lines 237-243 resumes with its image loaded,
\* or loadImage or the card lookup of line 241 throws and the run's
\* Promise.all rejects; after the last load the loop starts
QueueLoadSettled(t, ok) ==
    /\ t.kind = "qload"
    /\ LET loaded == ok /\ items[t.item].file.decodes
           its == IF loaded
                  THEN [items EXCEPT ![t.item].originalImg = items[t.item].file.image]
                  ELSE items
           run == runs[t.run]
       IN  IF ~loaded \/ t.item \notin cards
           THEN /\ items' = its
                /\ tasks' = Retire(tasks, t)
                /\ runs' = [runs EXCEPT ![t.run].pc =
                               IF run.pc = "loading" THEN "failed" ELSE @]
                /\ UNCHANGED <<alphaMaps, calcCount, engineLog>>
           ELSE IF run.pc = "loading" /\ run.waiting = 1
           THEN LET next == Continue(t.run, 0, its, Retire(tasks, t), engineLog)
                IN  /\ items' = next.items
                    /\ tasks' = next.tasks
                    /\ alphaMaps' = next.alphaMaps
                    /\ calcCount' = next.calcCount
                    /\ engineLog' = next.log
                    /\ runs' = [runs EXCEPT ![t.run] =
                                   [pc |-> next.pc, i |-> next.i, waiting |-> next.waiting]]
           ELSE /\ items' = its
                /\ tasks' = Retire(tasks, t)
                /\ runs' = [runs EXCEPT ![t.run].waiting = @ - 1]
                /\ UNCHANGED <<alphaMaps, calcCount, engineLog>>
    /\ UNCHANGED <<imageQueue, processedCount, cards, preview, displayed, processedImage, toggleShown>>
    /\ UNCHANGED <<initVars, editVars, events, dropped>>
    /\ UNCHANGED <<detectVars, served, calls>>

\* processQueue: the toBlob callback of one item (lines 255-286); after the
\* last item of the slice the loop goes on
QueueItemToBlob(t) ==
    /\ t.kind = "qitem"
    /\ LET shown == t.item \in cards
           its == [items EXCEPT
                      ![t.item] = SetStatus([@ EXCEPT !.processedBlob = t.output],
                                            IF shown THEN "completed" ELSE "error")]
           log == IF shown
                  THEN engineLog \cup {EngineCall(262, "getWatermarkInfo")}
                  ELSE engineLog
           run == runs[t.run]
       IN  /\ processedCount' = IF shown THEN processedCount + 1 ELSE processedCount
           /\ IF run.waiting = 1
              THEN LET next == Continue(t.run, run.i + Concurrency, its,
                                        Retire(tasks, t), log)
                   IN  /\ items' = next.items
                       /\ tasks' = next.tasks
                       /\ alphaMaps' = next.alphaMaps
                       /\ calcCount' = next.calcCount
                       /\ engineLog' = next.log
                       /\ runs' = [runs EXCEPT ![t.run] =
                                      [pc |-> next.pc, i |-> next.i,
                                       waiting |-> next.waiting]]
              ELSE /\ items' = its
                   /\ tasks' = Retire(tasks, t)
                   /\ engineLog' = log
                   /\ runs' = [runs EXCEPT ![t.run].waiting = @ - 1]
                   /\ UNCHANGED <<alphaMaps, calcCount>>
    /\ UNCHANGED <<imageQueue, cards, preview, displayed, processedImage, toggleShown>>
    /\ UNCHANGED <<initVars, editVars, events, dropped>>
    /\ UNCHANGED <<detectVars, served, calls>>

(***************************************************************************)
(* SpecApp: the application from page load, under every order of image     *)
(* loads, user events and task resumptions.                                *)
(***************************************************************************)
File(image, type, size, decodes) ==
    [image |-> image, type |-> type, size |-> size, decodes |-> decodes]

FSmall == File(Small, "image/png", 1000, TRUE)
FLarge == File(Large, "image/jpeg", MaxFileSize, TRUE)
FCorrupt == File(Tiny, "image/webp", 10, FALSE)
FGif == File(Small, "image/gif", 1000, TRUE)
FHuge == File(Large, "image/png", MaxFileSize + 1, TRUE)

\* what the user picks or drops
FileLists ==
    { <<FSmall>>, <<FGif, FHuge>>, <<FLarge, FCorrupt>>,
      <<FSmall, FGif, FLarge>>, <<FSmall, FLarge, FSmall, FLarge>> }

FileEvents == {"fileInput.change", "uploadArea.drop"}
Handles == {{}, {"s", "e"}, {"n", "w"}}
Deltas == {<<7, -30>>, <<-30, 7>>}
Keys == {"ArrowLeft", "ArrowDown", "Enter"}

AppInit ==
    /\ AppIdle
    /\ DetectIdle
    /\ EngineIdle

AppNext ==
    \/ InitCall
    \/ \E ok \in BOOLEAN : I18nSettled(ok)
    \/ \E ok \in BOOLEAN : Bg48Settled(ok)
    \/ \E ok \in BOOLEAN : Bg96Settled(ok)
    \/ CreateSettled
    \/ \E via \in FileEvents, files \in FileLists : UserFiles(via, files)
    \/ UserReset
    \/ UserToggle
    \/ \E handle \in Handles : UserMouseDown(handle)
    \/ \E delta \in Deltas : UserMouseMove(delta[1], delta[2])
    \/ UserMouseUp
    \/ \E key \in Keys, shiftKey \in BOOLEAN : UserKeyDown(key, shiftKey)
    \/ \E s \in Scales : UserResize(s)
    \/ TimerFire
    \/ \E t \in BagToSet(tasks) : SingleLoadSettled(t, TRUE)
    \/ \E t \in BagToSet(tasks), ok \in BOOLEAN : SingleCheckSettled(t, ok)
    \/ \E t \in BagToSet(tasks) : SingleToBlob(t)
    \/ \E t \in BagToSet(tasks) : QueueLoadSettled(t, TRUE)
    \/ \E t \in BagToSet(tasks) : QueueItemToBlob(t)

SpecApp == AppInit /\ [][AppNext]_vars

(***************************************************************************)
(* Claims about the application's start-up                                 *)
(***************************************************************************)

\* C8: if either reference capture fails to load, WatermarkEngine.create
\* fails as a whole: no engine, partial or otherwise, is ever stored, and
\* create is not called again; an engine exists only after both captures
\* have loaded, and it holds both of them loaded.
C8_CreateFailsAsAWhole ==
    /\ (bg48 = "error" \/ bg96 = "error") => engine = NoEngine
    /\ engine # NoEngine =>
          /\ bg48 = "loaded" /\ bg96 = "loaded"
          /\ engine = NewEngine("loaded", "loaded")
    /\ initPc = "failed" => engine = NoEngine
    /\ createCalls <= 1

\* C8 happens: one capture loaded, the other failed, create rejected
C8_Witness ==
    /\ bg48 = "loaded"
    /\ bg96 = "error"
    /\ initPc = "failed"
    /\ createCalls = 1
    /\ engine = NoEngine

\* C9: every call of engine.removeWatermarkFromImage or
\* engine.getWatermarkInfo the application makes, under every order of user
\* events and init, is made while the engine variable holds the constructed
\* engine, after init passed WatermarkEngine.create; none is made when
\* construction failed.
C9_NoEngineCallBeforeConstruction ==
    /\ \A call \in engineLog : call.ready /\ call.initPc = "ready"
    /\ engineLog # {} => engine # NoEngine /\ initPc = "ready"
    /\ initPc \in {"start", "i18n", "create", "failed"} => engineLog = {}

\* C9 happens: the user acted before the engine existed, and later both
\* engine methods were called from processSingle
C9_Witness ==
    /\ dropped
    /\ \E call \in engineLog : call.site = 187
    /\ \E call \in engineLog : call.site = 177

(***************************************************************************)
(* SpecEdit: the custom-mode editor on one selected image.  The start is   *)
(* the application after init has finished, one file has been selected and *)
(* processSingle has shown it, at either layout scale, with custom mode    *)
(* off or just switched on; `events` counts the events handled from there. *)
(* The processSingle calls the handlers start stay suspended at their      *)
(* first await: their resumption writes neither customPosition nor the     *)
(* overlay box, and SpecApp follows it.                                    *)
(***************************************************************************)

\* init has run to its end (lines 40-61)
ReadyApp ==
    /\ initPc = "ready"
    /\ bg48 = "loaded"
    /\ bg96 = "loaded"
    /\ engine = NewEngine("loaded", "loaded")
    /\ createCalls = 1
    /\ listeners = ListenersBeforeCreate \cup ListenersAfterCreate

Thumb == [id |-> 5, width |-> 60, height |-> 50]          \* narrower than 80
FThumb == File(Thumb, "image/png", 2000, TRUE)

\* handleFiles([f]) and the processSingle it starts have run (lines 124-207),
\* then, if custom, toggleCustomMode (lines 358-377); the layout scale is s
EditOpened(f, s, custom) ==
    LET r    == removeWatermarkFromImage(EmptyMap, EmptyMap, f.image, NoPosition)
        info == getWatermarkInfo(f.image.width, f.image.height)
        item == NoteRemoval([NewItem(f) EXCEPT !.originalImg = f.image])
        call == [site |-> 0, method |-> "getWatermarkInfo", ready |-> TRUE,
                 initPc |-> "ready"]
    IN  /\ ReadyApp
        /\ imageQueue = <<1>>
        /\ items = << [item EXCEPT !.processedBlob = r.output] >>
        /\ processedCount = 0
        /\ cards = {}
        /\ preview = "single"
        /\ displayed = [id |-> 1]
        /\ processedImage = IF r.rejected THEN NoItem
                            ELSE [id |-> 1, output |-> r.output]
        /\ toggleShown = TRUE
        /\ isCustomMode = custom
        /\ customPosition = IF custom THEN info.position ELSE NoPosition
        /\ positionItem = IF custom THEN [id |-> 1] ELSE NoItem
        /\ dragState = NoDrag
        /\ box = IF custom
                 THEN [left   |-> (SubPx * info.position.x) \div s,
                       top    |-> (SubPx * info.position.y) \div s,
                       width  |-> (SubPx * info.position.width) \div s,
                       height |-> (SubPx * info.position.height) \div s]
                 ELSE [left |-> 0, top |-> 0, width |-> 0, height |-> 0]
        /\ overlayShown = custom
        /\ scale = s
        /\ processTimeout = NoTimer
        /\ tasks = EmptyBag
        /\ runs = <<>>
        /\ engineLog =
              { [call EXCEPT !.site = 177],
                [site |-> 187, method |-> "removeWatermarkFromImage",
                 ready |-> TRUE, initPc |-> "ready", item |-> 1,
                 custom |-> NoPosition, customOf |-> NoItem] }
              \cup (IF custom THEN {[call EXCEPT !.site = 374]} ELSE {})
        /\ dropped = FALSE
        /\ alphaMaps = r.alphaMaps
        /\ calcCount = r.calcCount
        /\ served = {}
        /\ calls = <<>>
        /\ DetectIdle

EditFiles == {FSmall, FThumb}
EditDeltas == {<<7, -30>>, <<100, 100>>}

EditInit ==
    /\ \E f \in EditFiles, s \in Scales, custom \in BOOLEAN : EditOpened(f, s, custom)
    /\ events = 0

EditNext ==
    \/ UserToggle
    \/ \E handle \in Handles : UserMouseDown(handle)
    \/ \E delta \in EditDeltas : UserMouseMove(delta[1], delta[2])
    \/ UserMouseUp
    \/ \E key \in Keys, shiftKey \in BOOLEAN : UserKeyDown(key, shiftKey)
    \/ \E s \in Scales : UserResize(s)
    \/ TimerFire

SpecEdit == EditInit /\ [][EditNext]_vars

(***************************************************************************)
(* Claims about the custom position                                        *)
(***************************************************************************)

\* the image the editor works on: imageQueue[0].originalImg (lines 508-509,
\* 554-555)
HasImage == FirstItem # NoItem /\ items[FirstItem.id].originalImg # NoItem
LoadedImage == items[FirstItem.id].originalImg

\* a rectangle lies inside an image
Inside(p, img) ==
    /\ p.x >= 0
    /\ p.y >= 0
    /\ p.x + p.width <= img.width
    /\ p.y + p.height <= img.height

\* C14: whenever stopDrag ends a drag (move or resize, any delta, any
\* handle) while an image is loaded, the customPosition it leaves lies
\* inside that image
C14_DragEndsInsideImage ==
    [][(dragState # NoDrag /\ dragState' = NoDrag /\ HasImage) =>
           Inside(customPosition', LoadedImage)]_vars

\* C15: after every arrow-key event that handleKeyDown handles in custom
\* mode with an image loaded, customPosition is at least 20 wide and 20
\* high and lies inside the image
C15_KeyKeepsBoxInsideImage ==
    [][((\E key \in ArrowKeys, shiftKey \in BOOLEAN : UserKeyDown(key, shiftKey))
            /\ events' = events + 1 /\ HasImage) =>
           /\ customPosition'.width >= MinSize
           /\ customPosition'.height >= MinSize
           /\ Inside(customPosition', LoadedImage)]_vars

\* C16: every custom position processSingle passes to
\* removeWatermarkFromImage was set on the item it is passed for; a position
\* set on an earlier selection is never applied to a newly selected image.
C16_NoStalePosition ==
    \A call \in engineLog :
        (call.site = 187 /\ call.custom # NoPosition) =>
            call.customOf = [id |-> call.item]

(***************************************************************************)
(* SpecQueue: batch processing.  The start is the application after init   *)
(* has finished; the user selects batches of files, possibly again while   *)
(* an earlier processQueue run is under way, and resets.                   *)
(***************************************************************************)

\* the number of queue items an execution of SpecQueue builds
MaxBatchItems == 6

\* what the user picks: batches of 2 and 4 files, one with a file that
\* does not decode
BatchLists ==
    { <<FSmall, FLarge>>, <<FLarge, FCorrupt>>,
      <<FSmall, FLarge, FSmall, FLarge>> }

QueueInit ==
    /\ ReadyApp
    /\ imageQueue = <<>>
    /\ items = <<>>
    /\ processedCount = 0
    /\ cards = {}
    /\ preview = "none"
    /\ displayed = NoItem
    /\ processedImage = NoItem
    /\ toggleShown = FALSE
    /\ isCustomMode = FALSE
    /\ customPosition = NoPosition
    /\ positionItem = NoItem
    /\ dragState = NoDrag
    /\ box = [left |-> 0, top |-> 0, width |-> 0, height |-> 0]
    /\ overlayShown = FALSE
    /\ scale = 1
    /\ processTimeout = NoTimer
    /\ tasks = EmptyBag
    /\ runs = <<>>
    /\ engineLog = {}
    /\ events = 0
    /\ dropped = FALSE
    /\ EngineIdle
    /\ DetectIdle

QueueNext ==
    \/ \E files \in BatchLists : UserFilesUpTo("fileInput.change", files, MaxBatchItems)
    \/ UserReset
    \/ \E t \in BagToSet(tasks) : QueueLoadSettled(t, TRUE)
    \/ \E t \in BagToSet(tasks) : QueueItemToBlob(t)

SpecQueue == QueueInit /\ [][QueueNext]_vars

(***************************************************************************)
(* Claims about batch items                                                *)
(***************************************************************************)

\* the number of times x occurs in a sequence
RECURSIVE Count(_, _)
Count(seq, x) ==
    IF seq = <<>> THEN 0
    ELSE (IF Head(seq) = x THEN 1 ELSE 0) + Count(Tail(seq), x)

\* the values item.status has been given, in order
StatusTrace(item) == SelectSeq(item.trace, LAMBDA e : e # "removal")

\* C19: a batch item's status only moves pending -> processing -> completed
\* or pending -> processing -> error and stays once completed or error, and
\* engine.removeWatermarkFromImage is called at most once with a batch item
C19_StatusMachineSingleRemoval ==
    \A k \in DOMAIN items :
        items[k].batch =>
            /\ StatusTrace(items[k]) \in
                   { <<>>, <<"processing">>, <<"processing", "completed">>,
                     <<"processing", "error">> }
            /\ Count(items[k].trace, "removal") <= 1

\* C17: processedCount is the number of 'completed' items of the current
\* imageQueue, hence never more than imageQueue.length
C17_ProcessedCountMatchesQueue ==
    /\ processedCount =
           Cardinality({k \in 1..Len(imageQueue) :
                           items[imageQueue[k]].status = "completed"})
    /\ processedCount <= Len(imageQueue)

\* C18: at most 3 batch items are in status 'processing' at any moment
C18_AtMostThreeProcessing ==
    Cardinality({k \in DOMAIN items :
                    items[k].batch /\ items[k].status = "processing"}) <= Concurrency

(***************************************************************************)
(* SpecBatch: one batch.  handleFiles is called once, with two or more     *)
(* valid files, and no reset follows; every image load settles one way or  *)
(* the other and every toBlob callback arrives (weak fairness of Settle).  *)
(***************************************************************************)
BatchNext ==
    \/ /\ runs = <<>>
       /\ \E files \in BatchLists :
             UserFilesUpTo("fileInput.change", files, MaxBatchItems)
    \/ \E t \in BagToSet(tasks), ok \in BOOLEAN : QueueLoadSettled(t, ok)
    \/ \E t \in BagToSet(tasks) : QueueItemToBlob(t)

\* a pending asynchronous step of the batch settles
Settle ==
    \/ \E t \in BagToSet(tasks), ok \in BOOLEAN : QueueLoadSettled(t, ok)
    \/ \E t \in BagToSet(tasks) : QueueItemToBlob(t)

SpecBatch == QueueInit /\ [][BatchNext]_vars /\ WF_vars(Settle)

\* C20: once handleFiles has accepted two or more files, every item of the
\* queue eventually has status 'completed' or 'error'
C20_EveryItemSettles ==
    (Len(imageQueue) >= 2) ~>
        (\A k \in 1..Len(imageQueue) :
            items[imageQueue[k]].status \in {"completed", "error"})

(***************************************************************************)
(* Claims about custom mode                                                *)
(***************************************************************************)

\* C21: in every reachable state, when isCustomMode is false,
\* customPosition is null
C21_NoPositionOutsideCustomMode ==
    ~isCustomMode => customPosition = NoPosition

====
